---------------------------- MODULE Spec2Model ----------------------------
(***************************************************************************)
(* Model of util.c (Atmel ATmega128 utility functions): the timer2 driven  *)
(* blocking delay wait_ms, the push button and shaft encoder readers and   *)
(* the stepper motor sequencer.                                            *)
(*                                                                         *)
(* The main line of execution is a program counter `pc` over the source    *)
(* lines plus a stack of return addresses.  The timer2 compare-match       *)
(* interrupt handler preempts the main line between any two of its steps.  *)
(* timer2_tick is a 16 bit object on an 8 bit CPU: the main line reads and *)
(* writes it one byte at a time, and the handler may run between the two   *)
(* byte accesses.                                                          *)
(***************************************************************************)
EXTENDS Integers, Sequences, FiniteSets, TLC

---------------------------------------------------------------------------
(* Widths *)

\* 8 bit I/O registers and char
ByteModulus == 256
\* unsigned int / int on the AVR: 16 bit
WordModulus == 65536

(* Bounds of the model *)

\* wait_ms is called from the main line with 0..MaxDur
MaxDur == 2
\* move_stepper_motor_by_step is called with num_steps in -1..MaxSteps
MaxSteps == 4
\* Main-line steps that are certain to fit between two compare matches of
\* timer2.  One period is 64 * 250 = 16000 CPU cycles (util.c:24, :39), a
\* main-line step a handful of cycles, so any small value is a safe lower
\* bound on the real figure.
TickGap == 5
\* Interrupts handled while the main line is between two calls with the timer
\* left running: the model follows this many
MaxIdleTicks == 2

---------------------------------------------------------------------------
(* Bit arithmetic on naturals *)

Min(a, b) == IF a < b THEN a ELSE b

RECURSIVE AndN(_, _, _)
AndN(a, b, n) ==
    IF n = 0 THEN 0
    ELSE (a % 2) * (b % 2) + 2 * AndN(a \div 2, b \div 2, n - 1)

\* C's a & b on 16 bit operands
BitAnd(a, b) == AndN(a, b, 16)
\* C's a | b
BitOr(a, b) == a + b - BitAnd(a, b)
\* C's ~a truncated to a byte
BitNot8(a) == (ByteModulus - 1) - a
\* bit n of a
Bit(a, n) == (a \div (2 ^ n)) % 2

LoByte(w) == w % ByteModulus
HiByte(w) == w \div ByteModulus
Word(hi, lo) == hi * ByteModulus + lo

---------------------------------------------------------------------------
VARIABLES
    pc,             \* main line: the source line about to be executed
    stack,          \* main line: return addresses of the calls in progress
    acc,            \* main line: the half-done 16 bit access to timer2_tick
    time_val,       \* wait_ms: its parameter
    unit,           \* timer2_start: its parameter
    num_steps,      \* move_stepper_motor_by_step: parameter
    direction,      \* move_stepper_motor_by_step: parameter
    i,              \* move_stepper_motor_by_step: loop counter
    full_byte,      \* move_stepper_motor_by_step: local
    coil_position,  \* move_stepper_motor_by_step: static int
    old_value,      \* read_shaft_encoder: static int8_t
    ret,            \* value returned by the last reader call
    timer2_tick,    \* volatile unsigned int timer2_tick
    OCR2, TCCR2, TIMSK, SREG_I, OCF2,   \* timer2 / interrupt registers
    DDRE, PORTE, PINC,                  \* port registers
    gap,            \* hardware: main-line steps since the last compare match
    irq_ok,         \* hardware: an instruction has run since the last reti
    timing,         \* environment: "periodic" or "any" spacing of matches
    idle_ticks,     \* environment: interrupts handled since the last return
    call,           \* history: the call made from the main line
    hist            \* history: what has happened during that call

cpu == <<pc, stack, acc>>
locals == <<time_val, unit, num_steps, direction, i, full_byte>>
statics == <<coil_position, old_value>>
timer == <<OCR2, TCCR2, TIMSK, SREG_I>>
ports == <<DDRE, PORTE, PINC>>
env == <<timing, idle_ticks>>
vars == <<pc, stack, acc, time_val, unit, num_steps, direction, i, full_byte,
          coil_position, old_value, ret, timer2_tick, OCR2, TCCR2, TIMSK,
          SREG_I, OCF2, DDRE, PORTE, PINC, gap, irq_ok, timing, idle_ticks,
          call, hist>>

NoAcc == [first |-> "none", val |-> 0]

\* History of one call from the main line.
\*   pos0     Coil Position when the call was made
\*   waits    the times wait_ms has been entered
NoHist == [pos0 |-> coil_position, waits |-> 0]

---------------------------------------------------------------------------
(* Hardware *)

\* compare-match interrupt enabled: OCIE2, bit 7 of TIMSK
OCIE2 == Bit(TIMSK, 7) = 1
\* timer2 is clocked: clock select bits CS22:0 of TCCR2 are not 000
Clocked == TCCR2 % 8 # 0

\* The handler is about to run: an enabled interrupt is pending and the
\* instruction after the last reti has been executed.
Pending ==
    /\ OCF2 /\ OCIE2 /\ SREG_I /\ irq_ok
    /\ pc = "idle" => idle_ticks < MaxIdleTicks

\* One main-line step is executed: none is while an interrupt is pending.
Elapse ==
    /\ ~Pending
    /\ gap' = IF timing = "periodic" THEN Min(gap + 1, TickGap) ELSE gap
    /\ irq_ok' = TRUE

\* A call from the main line: one main-line step.
ElapseCall ==
    /\ Elapse
    /\ idle_ticks' = 0

\* Timer2 reaches OCR2: the hardware sets the compare flag.
CompareMatch ==
    /\ Clocked
    /\ ~OCF2
    /\ timing = "periodic" => gap >= TickGap
    /\ OCF2' = TRUE
    /\ gap' = 0
    /\ UNCHANGED <<cpu, locals, statics, ret, timer2_tick, timer, ports,
                   irq_ok, env, call, hist>>

\* Variant of the handler that does not count.
ISR_TIMER2_COMP_NoCount ==
    /\ Pending
    /\ OCF2' = FALSE
    /\ irq_ok' = FALSE
    /\ idle_ticks' = IF pc = "idle" THEN idle_ticks + 1 ELSE idle_ticks
    /\ UNCHANGED <<cpu, locals, statics, ret, timer2_tick, timer, ports, gap,
                   timing, call, hist>>

\* ISR (TIMER2_COMP_vect): timer2_tick++
ISR_TIMER2_COMP ==
    /\ Pending
    /\ timer2_tick' = (timer2_tick + 1) % WordModulus
    /\ OCF2' = FALSE
    /\ irq_ok' = FALSE
    /\ idle_ticks' = IF pc = "idle" THEN idle_ticks + 1 ELSE idle_ticks
    /\ UNCHANGED <<cpu, locals, statics, ret, timer, ports, gap, timing, call,
                   hist>>

---------------------------------------------------------------------------
(* Main line: call and return *)

Goto(l) == pc' = l /\ UNCHANGED stack
Call(l, back) == pc' = l /\ stack' = <<back>> \o stack
Return == pc' = Head(stack) /\ stack' = Tail(stack)

\* The first half of a 16 bit store of 0 to timer2_tick: either byte.
StoreZeroFirst(next) ==
    \E b \in {"lo", "hi"} :
        /\ acc' = [first |-> b, val |-> 0]
        /\ timer2_tick' = IF b = "lo" THEN Word(HiByte(timer2_tick), 0)
                          ELSE Word(0, LoByte(timer2_tick))
        /\ Goto(next)

\* The second half: the other byte.
StoreZeroSecond ==
    /\ acc' = NoAcc
    /\ timer2_tick' = IF acc.first = "lo" THEN Word(0, LoByte(timer2_tick))
                      ELSE Word(HiByte(timer2_tick), 0)

---------------------------------------------------------------------------
(* void wait_ms(unsigned int time_val) *)

\* OCR2=250;
wait_ms_24 ==
    /\ pc = "wait_ms:24"
    /\ OCR2' = 250
    /\ Goto("wait_ms:25")
    /\ hist' = [hist EXCEPT !.waits = @ + 1]
    /\ Elapse
    /\ UNCHANGED <<acc, locals, statics, ret, timer2_tick, TCCR2, TIMSK, SREG_I,
                   OCF2, ports, env, call>>

\* timer2_tick=0;  (first byte)
wait_ms_25 ==
    /\ pc = "wait_ms:25"
    /\ StoreZeroFirst("wait_ms:25b")
    /\ Elapse
    /\ UNCHANGED <<locals, statics, ret, timer, OCF2, ports, env, call, hist>>

\* timer2_tick=0;  (second byte)   timer2_start(0);
wait_ms_25b ==
    /\ pc = "wait_ms:25b"
    /\ StoreZeroSecond
    /\ unit' = 0
    /\ Call("timer2_start:37", "wait_ms:29")
    /\ Elapse
    /\ UNCHANGED <<time_val, num_steps, direction, i, full_byte, statics, ret,
                   timer, OCF2, ports, env, call, hist>>

\* while(timer2_tick < time_val);  (read of the first byte)
wait_ms_29 ==
    /\ pc = "wait_ms:29"
    /\ \E b \in {"lo", "hi"} :
        acc' = [first |-> b,
                val |-> IF b = "lo" THEN LoByte(timer2_tick)
                        ELSE HiByte(timer2_tick)]
    /\ Goto("wait_ms:29b")
    /\ Elapse
    /\ UNCHANGED <<locals, statics, ret, timer2_tick, timer, OCF2, ports,
                   env, call, hist>>

\* The value the poll compares: the byte read first with the byte read now.
Polled ==
    IF acc.first = "lo" THEN Word(HiByte(timer2_tick), acc.val)
    ELSE Word(acc.val, LoByte(timer2_tick))

\* Variant of the poll with <= for <.
wait_ms_29b_LessOrEqual ==
    /\ pc = "wait_ms:29b"
    /\ acc' = NoAcc
    /\ IF Polled <= time_val
       THEN Goto("wait_ms:29")
       ELSE Call("timer2_stop:52", "wait_ms:32")
    /\ Elapse
    /\ UNCHANGED <<locals, statics, ret, timer2_tick, timer, OCF2, ports,
                   env, call, hist>>

\* Variant of the end of the loop without timer2_stop().
wait_ms_29b_NoStop ==
    /\ pc = "wait_ms:29b"
    /\ acc' = NoAcc
    /\ Goto(IF Polled < time_val THEN "wait_ms:29" ELSE "wait_ms:32")
    /\ Elapse
    /\ UNCHANGED <<locals, statics, ret, timer2_tick, timer, OCF2, ports,
                   env, call, hist>>

\* while(timer2_tick < time_val);  (read of the second byte, comparison)
\* timer2_stop();
wait_ms_29b ==
    /\ pc = "wait_ms:29b"
    /\ acc' = NoAcc
    /\ IF Polled < time_val
       THEN Goto("wait_ms:29")
       ELSE Call("timer2_stop:52", "wait_ms:32")
    /\ Elapse
    /\ UNCHANGED <<locals, statics, ret, timer2_tick, timer, OCF2, ports,
                   env, call, hist>>

\* } return
wait_ms_32 ==
    /\ pc = "wait_ms:32"
    /\ Return
    /\ time_val' = 0
    /\ Elapse
    /\ UNCHANGED <<acc, unit, num_steps, direction, i, full_byte, statics, ret,
                   timer2_tick, timer, OCF2, ports, env, call, hist>>

---------------------------------------------------------------------------
(* void timer2_start(char unit) *)

\* timer2_tick=0;  (first byte)
timer2_start_37 ==
    /\ pc = "timer2_start:37"
    /\ StoreZeroFirst("timer2_start:37b")
    /\ Elapse
    /\ UNCHANGED <<locals, statics, ret, timer, OCF2, ports, env, call, hist>>

\* timer2_tick=0;  (second byte)
timer2_start_37b ==
    /\ pc = "timer2_start:37b"
    /\ StoreZeroSecond
    /\ Goto("timer2_start:38")
    /\ Elapse
    /\ UNCHANGED <<locals, statics, ret, timer, OCF2, ports, env, call, hist>>

\* if ( unit == 0 ) { TCCR2=0b00001011; TIMSK|=0b10000000; }
timer2_start_38 ==
    /\ pc = "timer2_start:38"
    /\ IF unit = 0
       THEN /\ TCCR2' = 11
            /\ TIMSK' = BitOr(TIMSK, 128)
       ELSE UNCHANGED <<TCCR2, TIMSK>>
    /\ Goto("timer2_start:42")
    /\ Elapse
    /\ UNCHANGED <<acc, locals, statics, ret, timer2_tick, OCR2, SREG_I, OCF2,
                   ports, env, call, hist>>

\* if (unit == 1) { TCCR2=0b00001001; TIMSK|=0b10000000; }
timer2_start_42 ==
    /\ pc = "timer2_start:42"
    /\ IF unit = 1
       THEN /\ TCCR2' = 9
            /\ TIMSK' = BitOr(TIMSK, 128)
       ELSE UNCHANGED <<TCCR2, TIMSK>>
    /\ Goto("timer2_start:46")
    /\ Elapse
    /\ UNCHANGED <<acc, locals, statics, ret, timer2_tick, OCR2, SREG_I, OCF2,
                   ports, env, call, hist>>

\* sei(); } return
timer2_start_46 ==
    /\ pc = "timer2_start:46"
    /\ SREG_I' = TRUE
    /\ Return
    /\ unit' = 0
    /\ Elapse
    /\ UNCHANGED <<acc, time_val, num_steps, direction, i, full_byte, statics, ret,
                   timer2_tick, OCR2, TCCR2, TIMSK, OCF2, ports, env, call,
                   hist>>

---------------------------------------------------------------------------
(* void timer2_stop() *)

\* Variant of line 52 without the complement: TIMSK&=0b10000000;
timer2_stop_52_NoComplement ==
    /\ pc = "timer2_stop:52"
    /\ TIMSK' = BitAnd(TIMSK, 128)
    /\ Goto("timer2_stop:53")
    /\ Elapse
    /\ UNCHANGED <<acc, locals, statics, ret, timer2_tick, OCR2, TCCR2, SREG_I,
                   OCF2, ports, env, call, hist>>

\* Variant of line 52 with another bit: TIMSK&=~0b01000000;
timer2_stop_52_WrongBit ==
    /\ pc = "timer2_stop:52"
    /\ TIMSK' = BitAnd(TIMSK, BitNot8(64))
    /\ Goto("timer2_stop:53")
    /\ Elapse
    /\ UNCHANGED <<acc, locals, statics, ret, timer2_tick, OCR2, TCCR2, SREG_I,
                   OCF2, ports, env, call, hist>>

\* TIMSK&=~0b10000000;
timer2_stop_52 ==
    /\ pc = "timer2_stop:52"
    /\ TIMSK' = BitAnd(TIMSK, BitNot8(128))
    /\ Goto("timer2_stop:53")
    /\ Elapse
    /\ UNCHANGED <<acc, locals, statics, ret, timer2_tick, OCR2, TCCR2, SREG_I,
                   OCF2, ports, env, call, hist>>

\* Variant of line 53 that toggles the bits: TCCR2^=0b01111111;
timer2_stop_53_Toggle ==
    /\ pc = "timer2_stop:53"
    /\ TCCR2' = BitOr(TCCR2, 127) - BitAnd(TCCR2, 127)
    /\ Return
    /\ Elapse
    /\ UNCHANGED <<acc, locals, statics, ret, timer2_tick, OCR2, TIMSK, SREG_I,
                   OCF2, ports, env, call, hist>>

\* TCCR2&=0b01111111; } return
timer2_stop_53 ==
    /\ pc = "timer2_stop:53"
    /\ TCCR2' = BitAnd(TCCR2, 127)
    /\ Return
    /\ Elapse
    /\ UNCHANGED <<acc, locals, statics, ret, timer2_tick, OCR2, TIMSK, SREG_I,
                   OCF2, ports, env, call, hist>>

---------------------------------------------------------------------------
(* uint8_t read_push_buttons(void) *)

\* for (shift = 5; shift > -1; shift--) if (((PINC >> shift) & 0x01) == 0) break;
\* the value of shift when the loop is left
RECURSIVE ScanButtons(_, _)
ScanButtons(pinc, shift) ==
    IF shift > -1
    THEN IF BitAnd(pinc \div (2 ^ shift), 1) = 0
         THEN shift
         ELSE ScanButtons(pinc, shift - 1)
    ELSE shift

\* Variant that returns the shift index itself.
read_push_buttons_value_NoPlusOne(pinc) == ScanButtons(pinc, 5) % ByteModulus

\* return shift + 1;  (as uint8_t)
read_push_buttons_value(pinc) == (ScanButtons(pinc, 5) + 1) % ByteModulus

---------------------------------------------------------------------------
(* int8_t read_shaft_encoder(void) *)

\* int8_t new_value = PINC >> 6;
new_value_of(pinc) == pinc \div 64

\* Variant without the test of the previous state.
rotation_of_AnyOld(old, new) ==
    IF new = 2 THEN -1 ELSE IF new = 1 THEN 1 ELSE 0

\* if (old_value == 0x03) { if (new_value == 0x01) rotation = 1;
\*                          if (new_value == 0x02) rotation = -1; }
rotation_of(old, new) ==
    IF old = 3
    THEN IF new = 2 THEN -1 ELSE IF new = 1 THEN 1 ELSE 0
    ELSE 0

---------------------------------------------------------------------------
(* void stepper_init(void) *)

\* DDRE |= 0xF0;
stepper_init_130 ==
    /\ pc = "stepper_init:130"
    /\ DDRE' = BitOr(DDRE, 240)
    /\ Goto("stepper_init:131")
    /\ Elapse
    /\ UNCHANGED <<acc, locals, statics, ret, timer2_tick, timer, OCF2, PORTE,
                   PINC, env, call, hist>>

\* PORTE &= 0x8F;
stepper_init_131 ==
    /\ pc = "stepper_init:131"
    /\ PORTE' = BitAnd(PORTE, 143)
    /\ Goto("stepper_init:132")
    /\ Elapse
    /\ UNCHANGED <<acc, locals, statics, ret, timer2_tick, timer, OCF2, DDRE,
                   PINC, env, call, hist>>

\* wait_ms(2);
stepper_init_132 ==
    /\ pc = "stepper_init:132"
    /\ time_val' = 2
    /\ Call("wait_ms:24", "stepper_init:133")
    /\ Elapse
    /\ UNCHANGED <<acc, unit, num_steps, direction, i, full_byte, statics, ret,
                   timer2_tick, timer, OCF2, ports, env, call, hist>>

\* PORTE &= 0x0F; } return
stepper_init_133 ==
    /\ pc = "stepper_init:133"
    /\ PORTE' = BitAnd(PORTE, 15)
    /\ Return
    /\ Elapse
    /\ UNCHANGED <<acc, locals, statics, ret, timer2_tick, timer, OCF2, DDRE,
                   PINC, env, call, hist>>

---------------------------------------------------------------------------
(* void move_stepper_motor_by_step(int num_steps, int direction) *)

\* Variant of the clockwise step without the wraparound.
NextClockwise_NoWrap(pos) == pos * 2

\* if (coil_position==0b1000) coil_position = 0b0001;
\* else coil_position = coil_position << 1;
NextClockwise(pos) == IF pos = 8 THEN 1 ELSE pos * 2

\* Variant of the counterclockwise step without the wraparound.
NextCounterclockwise_NoWrap(pos) == pos \div 2

\* if (coil_position==0b0001) coil_position = 0b1000;
\* else coil_position = coil_position >> 1;
NextCounterclockwise(pos) == IF pos = 1 THEN 8 ELSE pos \div 2

\* int i=0;  if(direction==1) { for(i=0; ...
step_148 ==
    /\ pc = "step:148"
    /\ i' = 0
    /\ Goto(IF direction = 1 THEN "step:150" ELSE "step:161")
    /\ Elapse
    /\ UNCHANGED <<acc, time_val, unit, num_steps, direction, full_byte, statics,
                   ret, timer2_tick, timer, OCF2, ports, env, call, hist>>

\* Variant of the clockwise loop test with <= for <.
step_150_LessOrEqual ==
    /\ pc = "step:150"
    /\ Goto(IF i <= num_steps THEN "step:151" ELSE "step:176")
    /\ Elapse
    /\ UNCHANGED <<acc, locals, statics, ret, timer2_tick, timer, OCF2, ports,
                   env, call, hist>>

\* for(...;i<num_steps;...)   clockwise
step_150 ==
    /\ pc = "step:150"
    /\ Goto(IF i < num_steps THEN "step:151" ELSE "step:176")
    /\ Elapse
    /\ UNCHANGED <<acc, locals, statics, ret, timer2_tick, timer, OCF2, ports,
                   env, call, hist>>

\* lines 151-155: advance the Coil Position clockwise
step_151 ==
    /\ pc = "step:151"
    /\ coil_position' = NextClockwise(coil_position)
    /\ Goto("step:156")
    /\ Elapse
    /\ UNCHANGED <<acc, locals, old_value, ret, timer2_tick, timer, OCF2, ports,
                   env, call, hist>>

\* PORTE &= 0x0F;
step_156 ==
    /\ pc = "step:156"
    /\ PORTE' = BitAnd(PORTE, 15)
    /\ Goto("step:157")
    /\ Elapse
    /\ UNCHANGED <<acc, locals, statics, ret, timer2_tick, timer, OCF2, DDRE,
                   PINC, env, call, hist>>

\* full_byte=coil_position << 4;  (as char)
step_157 ==
    /\ pc = "step:157"
    /\ full_byte' = (coil_position * 16) % ByteModulus
    /\ Goto("step:158")
    /\ Elapse
    /\ UNCHANGED <<acc, time_val, unit, num_steps, direction, i, statics, ret,
                   timer2_tick, timer, OCF2, ports, env, call, hist>>

\* PORTE |= full_byte;
step_158 ==
    /\ pc = "step:158"
    /\ PORTE' = BitOr(PORTE, full_byte)
    /\ Goto("step:159")
    /\ Elapse
    /\ UNCHANGED <<acc, locals, statics, ret, timer2_tick, timer, OCF2, DDRE,
                   PINC, env, call, hist>>

\* Variant of line 159 with a wait of one tick.
step_159_WaitOne ==
    /\ pc = "step:159"
    /\ time_val' = 1
    /\ Call("wait_ms:24", "step:150i")
    /\ Elapse
    /\ UNCHANGED <<acc, unit, num_steps, direction, i, full_byte, statics, ret,
                   timer2_tick, timer, OCF2, ports, env, call, hist>>

\* wait_ms(2);
step_159 ==
    /\ pc = "step:159"
    /\ time_val' = 2
    /\ Call("wait_ms:24", "step:150i")
    /\ Elapse
    /\ UNCHANGED <<acc, unit, num_steps, direction, i, full_byte, statics, ret,
                   timer2_tick, timer, OCF2, ports, env, call, hist>>

\* for(...;...;i++)   clockwise
step_150i ==
    /\ pc = "step:150i"
    /\ i' = i + 1
    /\ Goto("step:150")
    /\ Elapse
    /\ UNCHANGED <<acc, time_val, unit, num_steps, direction, full_byte, statics,
                   ret, timer2_tick, timer, OCF2, ports, env, call, hist>>

\* Variant of line 161 with a plain else.
step_161_Else ==
    /\ pc = "step:161"
    /\ i' = 0
    /\ Goto("step:163")
    /\ Elapse
    /\ UNCHANGED <<acc, time_val, unit, num_steps, direction, full_byte, statics,
                   ret, timer2_tick, timer, OCF2, ports, env, call, hist>>

\* } else if (direction == -1) { for(i=0; ...
step_161 ==
    /\ pc = "step:161"
    /\ i' = 0
    /\ Goto(IF direction = -1 THEN "step:163" ELSE "step:176")
    /\ Elapse
    /\ UNCHANGED <<acc, time_val, unit, num_steps, direction, full_byte, statics,
                   ret, timer2_tick, timer, OCF2, ports, env, call, hist>>

\* for(...;i<num_steps;...)   counterclockwise
step_163 ==
    /\ pc = "step:163"
    /\ Goto(IF i < num_steps THEN "step:164" ELSE "step:176")
    /\ Elapse
    /\ UNCHANGED <<acc, locals, statics, ret, timer2_tick, timer, OCF2, ports,
                   env, call, hist>>

\* lines 164-168: advance the Coil Position counterclockwise
step_164 ==
    /\ pc = "step:164"
    /\ coil_position' = NextCounterclockwise(coil_position)
    /\ Goto("step:169")
    /\ Elapse
    /\ UNCHANGED <<acc, locals, old_value, ret, timer2_tick, timer, OCF2, ports,
                   env, call, hist>>

\* Variant of line 169 that leaves the port alone.
step_169_NoClear ==
    /\ pc = "step:169"
    /\ Goto("step:170")
    /\ Elapse
    /\ UNCHANGED <<acc, locals, statics, ret, timer2_tick, timer, OCF2, ports,
                   env, call, hist>>

\* PORTE &= 0x0F;
step_169 ==
    /\ pc = "step:169"
    /\ PORTE' = BitAnd(PORTE, 15)
    /\ Goto("step:170")
    /\ Elapse
    /\ UNCHANGED <<acc, locals, statics, ret, timer2_tick, timer, OCF2, DDRE,
                   PINC, env, call, hist>>

\* full_byte=coil_position << 4;  (as char)
step_170 ==
    /\ pc = "step:170"
    /\ full_byte' = (coil_position * 16) % ByteModulus
    /\ Goto("step:171")
    /\ Elapse
    /\ UNCHANGED <<acc, time_val, unit, num_steps, direction, i, statics, ret,
                   timer2_tick, timer, OCF2, ports, env, call, hist>>

\* PORTE |= full_byte;
step_171 ==
    /\ pc = "step:171"
    /\ PORTE' = BitOr(PORTE, full_byte)
    /\ Goto("step:172")
    /\ Elapse
    /\ UNCHANGED <<acc, locals, statics, ret, timer2_tick, timer, OCF2, DDRE,
                   PINC, env, call, hist>>

\* wait_ms(2);
step_172 ==
    /\ pc = "step:172"
    /\ time_val' = 2
    /\ Call("wait_ms:24", "step:163i")
    /\ Elapse
    /\ UNCHANGED <<acc, unit, num_steps, direction, i, full_byte, statics, ret,
                   timer2_tick, timer, OCF2, ports, env, call, hist>>

\* for(...;...;i++)   counterclockwise
step_163i ==
    /\ pc = "step:163i"
    /\ i' = i + 1
    /\ Goto("step:163")
    /\ Elapse
    /\ UNCHANGED <<acc, time_val, unit, num_steps, direction, full_byte, statics,
                   ret, timer2_tick, timer, OCF2, ports, env, call, hist>>

\* Variant of line 176 that leaves the port alone.
step_176_NoClear ==
    /\ pc = "step:176"
    /\ Return
    /\ num_steps' = 0 /\ direction' = 0 /\ i' = 0 /\ full_byte' = 0
    /\ Elapse
    /\ UNCHANGED <<acc, time_val, unit, statics, ret, timer2_tick, timer, OCF2,
                   ports, env, call, hist>>

\* PORTE &= 0x0F; } return
step_176 ==
    /\ pc = "step:176"
    /\ PORTE' = BitAnd(PORTE, 15)
    /\ Return
    /\ num_steps' = 0 /\ direction' = 0 /\ i' = 0 /\ full_byte' = 0
    /\ Elapse
    /\ UNCHANGED <<acc, time_val, unit, statics, ret, timer2_tick, timer, OCF2,
                   DDRE, PINC, env, call, hist>>

---------------------------------------------------------------------------
(* Calls from the main line *)

Idle == pc = "idle" /\ stack = <<>>

\* The application runs code of its own between two calls: any number of
\* main-line steps.
MainRuns ==
    /\ Idle
    /\ ~Pending
    /\ gap' = IF timing = "periodic" THEN TickGap ELSE gap
    /\ irq_ok' = TRUE
    /\ <<gap, irq_ok>>' # <<gap, irq_ok>>
    /\ UNCHANGED <<cpu, locals, statics, ret, timer2_tick, timer, OCF2, ports,
                   env, call, hist>>

\* The application calls wait_ms(d).
MainCallsWait(D) ==
    /\ Idle
    /\ \E d \in D :
        /\ time_val' = d
        /\ call' = [fn |-> "wait_ms", a |-> d, b |-> 0]
    /\ Call("wait_ms:24", "idle")
    /\ hist' = NoHist
    /\ ElapseCall
    /\ UNCHANGED <<acc, unit, num_steps, direction, i, full_byte, statics, ret,
                   timer2_tick, timer, OCF2, ports, timing>>

\* The application calls stepper_init().
MainCallsStepperInit ==
    /\ Idle
    /\ call' = [fn |-> "stepper_init", a |-> 0, b |-> 0]
    /\ Call("stepper_init:130", "idle")
    /\ hist' = NoHist
    /\ ElapseCall
    /\ UNCHANGED <<acc, locals, statics, ret, timer2_tick, timer, OCF2, ports,
                   timing>>

\* Values of direction: clockwise, counterclockwise and two that are neither
Directions == {-1, 0, 1, 2}

\* The application calls move_stepper_motor_by_step(n, d).
MainCallsStep ==
    /\ Idle
    /\ \E n \in -1 .. MaxSteps, d \in Directions :
        /\ num_steps' = n
        /\ direction' = d
        /\ call' = [fn |-> "move_stepper_motor_by_step", a |-> n, b |-> d]
    /\ Call("step:148", "idle")
    /\ hist' = NoHist
    /\ ElapseCall
    /\ UNCHANGED <<acc, time_val, unit, i, full_byte, statics, ret, timer2_tick,
                   timer, OCF2, ports, timing>>

\* The application calls timer2_start(u) itself.
MainCallsTimerStart ==
    /\ Idle
    /\ \E u \in {0, 1} :
        /\ unit' = u
        /\ call' = [fn |-> "timer2_start", a |-> u, b |-> 0]
    /\ Call("timer2_start:37", "idle")
    /\ hist' = NoHist
    /\ ElapseCall
    /\ UNCHANGED <<acc, time_val, num_steps, direction, i, full_byte, statics, ret,
                   timer2_tick, timer, OCF2, ports, timing>>

\* The application calls timer2_stop() itself.  call.a is the timer
\* configuration the call starts from, call.b tells whether the call before
\* was a timer2_stop() too.
MainCallsTimerStop ==
    /\ Idle
    /\ call' = [fn |-> "timer2_stop", a |-> <<TIMSK, TCCR2>>,
                b |-> IF call.fn = "timer2_stop" THEN 1 ELSE 0]
    /\ Call("timer2_stop:52", "idle")
    /\ hist' = NoHist
    /\ ElapseCall
    /\ UNCHANGED <<acc, locals, statics, ret, timer2_tick, timer, OCF2, ports,
                   timing>>

\* The buttons and the encoder are moved: the inputs of port C change.
InputChange ==
    /\ Idle
    /\ \E k \in 0 .. 7 :
          PINC' = IF Bit(PINC, k) = 1 THEN PINC - 2 ^ k ELSE PINC + 2 ^ k
    /\ UNCHANGED <<cpu, locals, statics, ret, timer2_tick, timer, OCF2, DDRE,
                   PORTE, gap, irq_ok, env, call, hist>>

\* The application calls read_push_buttons(): PINC is stable during the call.
MainCallsReadPushButtons ==
    /\ Idle
    /\ ret' = read_push_buttons_value(PINC)
    /\ call' = [fn |-> "read_push_buttons", a |-> 0, b |-> 0]
    /\ hist' = NoHist
    /\ ElapseCall
    /\ UNCHANGED <<cpu, locals, statics, timer2_tick, timer, OCF2, ports, timing>>

\* Variant of read_shaft_encoder() without line 121, old_value = new_value.
MainCallsReadShaftEncoder_NoUpdate ==
    /\ Idle
    /\ ret' = rotation_of(old_value, new_value_of(PINC))
    /\ call' = [fn |-> "read_shaft_encoder", a |-> old_value,
                b |-> new_value_of(PINC)]
    /\ hist' = NoHist
    /\ ElapseCall
    /\ UNCHANGED <<cpu, locals, statics, timer2_tick, timer, OCF2, ports,
                   timing>>

\* The application calls read_shaft_encoder().  call.a is the previous state
\* the call starts from, call.b the value it observes.
MainCallsReadShaftEncoder ==
    /\ Idle
    /\ ret' = rotation_of(old_value, new_value_of(PINC))
    /\ old_value' = new_value_of(PINC)
    /\ call' = [fn |-> "read_shaft_encoder", a |-> old_value,
                b |-> new_value_of(PINC)]
    /\ hist' = NoHist
    /\ ElapseCall
    /\ UNCHANGED <<cpu, locals, coil_position, timer2_tick, timer, OCF2, ports,
                   timing>>

---------------------------------------------------------------------------
(* Specifications *)

Durations == 0 .. MaxDur

\* Values of PORTE when the program starts
InitPorts == {0, 10, 128, 245}

\* The state after reset and C start-up, before main() calls anything.
InitWith(mode, portvals) ==
    /\ pc = "idle" /\ stack = <<>> /\ acc = NoAcc
    /\ time_val = 0 /\ unit = 0
    /\ num_steps = 0 /\ direction = 0 /\ i = 0 /\ full_byte = 0
    /\ coil_position = 1
    /\ old_value = 3
    /\ ret = 0
    /\ timer2_tick = 0
    /\ OCR2 = 0 /\ TCCR2 = 0 /\ TIMSK = 0 /\ SREG_I = FALSE /\ OCF2 = FALSE
    /\ DDRE = 0 /\ PORTE \in portvals /\ PINC = 255
    /\ gap = 0 /\ irq_ok = TRUE
    /\ timing = mode /\ idle_ticks = 0
    /\ call = [fn |-> "none", a |-> 0, b |-> 0]
    /\ hist = NoHist

Init == InitWith("periodic", InitPorts)

TimerSteps ==
    \/ timer2_start_37 \/ timer2_start_37b \/ timer2_start_38
    \/ timer2_start_42 \/ timer2_start_46
    \/ timer2_stop_52 \/ timer2_stop_53

WaitSteps ==
    \/ wait_ms_24 \/ wait_ms_25 \/ wait_ms_25b \/ wait_ms_29 \/ wait_ms_29b
    \/ wait_ms_32
    \/ TimerSteps

InitSteps ==
    \/ stepper_init_130 \/ stepper_init_131 \/ stepper_init_132
    \/ stepper_init_133

MoveSteps ==
    \/ step_148 \/ step_150 \/ step_151 \/ step_156 \/ step_157 \/ step_158
    \/ step_159 \/ step_150i
    \/ step_161 \/ step_163 \/ step_164 \/ step_169 \/ step_170 \/ step_171
    \/ step_172 \/ step_163i
    \/ step_176

StepperSteps == InitSteps \/ MoveSteps

\* The timed functions, called one after the other from the main line, with
\* the timer interrupt.
Next ==
    \/ MainRuns
    \/ MainCallsWait(Durations)
    \/ MainCallsStepperInit
    \/ MainCallsStep
    \/ WaitSteps
    \/ StepperSteps
    \/ CompareMatch
    \/ ISR_TIMER2_COMP

Spec == Init /\ [][Next]_vars

---------------------------------------------------------------------------
(* The stepper sequencer called on its own, from a port whose coil pins are
   low *)

NextStepper ==
    \/ MainRuns
    \/ MainCallsStep
    \/ MoveSteps
    \/ WaitSteps
    \/ CompareMatch
    \/ ISR_TIMER2_COMP

SpecStepper == InitWith("periodic", {0, 10}) /\ [][NextStepper]_vars

---------------------------------------------------------------------------
(* The input readers *)

NextInput ==
    \/ InputChange
    \/ MainCallsReadPushButtons
    \/ MainCallsReadShaftEncoder

SpecInput == InitWith("periodic", {0}) /\ [][NextInput]_vars

---------------------------------------------------------------------------
(* The timer driver called on its own *)

NextTimer ==
    \/ MainRuns
    \/ MainCallsTimerStart
    \/ MainCallsTimerStop
    \/ TimerSteps
    \/ CompareMatch
    \/ ISR_TIMER2_COMP

SpecTimer == Init /\ [][NextTimer]_vars

---------------------------------------------------------------------------
(* Claims about wait_ms *)

WaitLines == {"wait_ms:24", "wait_ms:25", "wait_ms:25b", "wait_ms:29",
              "wait_ms:29b", "wait_ms:32"}
TimerStartLines == {"timer2_start:37", "timer2_start:37b", "timer2_start:38",
                    "timer2_start:42", "timer2_start:46"}
TimerStopLines == {"timer2_stop:52", "timer2_stop:53"}

\* C1: wait_ms(d), d >= 1, does not return before timer2_tick, reset at the
\* start of the wait, has reached d.  (For d up to WordModulus - 2 the
\* counter cannot wrap between the last poll and the return, so "has reached
\* d" is "is at least d" when wait_ms returns.)
C1_NoEarlyReturn ==
    (pc = "wait_ms:32" /\ time_val \in 1 .. WordModulus - 2)
        => timer2_tick >= time_val

\* C2: for d >= 1, with compare matches one timer period apart, the counter
\* is at most d + 1 when timer2_stop has disabled the interrupt, when wait_ms
\* returns, and for as long as the main line makes no other call.
C2_StopsWithinOneTick ==
    /\ (pc \in {"timer2_stop:53", "wait_ms:32"} /\ time_val >= 1)
            => timer2_tick <= time_val + 1
    /\ (Idle /\ call.fn = "wait_ms" /\ call.a >= 1)
            => timer2_tick <= call.a + 1

\* A wait_ms(d), d >= 1, has polled, seen the counter at d, stopped the timer
\* and returned.
C2_Witness ==
    /\ Idle /\ call.fn = "wait_ms" /\ call.a = MaxDur
    /\ timer2_tick = call.a
    /\ ~OCIE2

\* C3 as claimed: during wait_ms(0) timer2_start is never entered, the
\* compare-match interrupt is never enabled and the global interrupt flag is
\* left as it was.
C3_ZeroWaitSkipsTimer ==
    [][(call'.fn = "wait_ms" /\ call'.a = 0)
            => /\ pc' \notin TimerStartLines
               /\ ~OCIE2'
               /\ SREG_I' = SREG_I]_vars

\* C3 as amended: wait_ms(0) starts the timer as every wait does
\* (timer2_start is entered, and when it returns the compare-match interrupt
\* and the global interrupt flag are on), but its first poll leaves the loop,
\* and when it returns the compare-match interrupt is off again and the
\* global interrupt flag is still on.
C3_ZeroWaitStartsAndStopsTimer ==
    [][(call.fn = "wait_ms" /\ call.a = 0 /\ pc' # pc)
            => /\ pc = "wait_ms:25b" => pc' = "timer2_start:37"
               /\ pc = "timer2_start:46" => (OCIE2' /\ SREG_I')
               /\ pc = "wait_ms:29b" => pc' = "timer2_stop:52"
               /\ pc' = "idle" => (~OCIE2' /\ SREG_I')]_vars

\* A wait_ms(0), called with the global interrupt flag off, has left the loop
\* with the compare-match interrupt and the global interrupt flag on.
C3_Witness ==
    /\ call.fn = "wait_ms" /\ call.a = 0
    /\ pc = "timer2_stop:52"
    /\ OCIE2 /\ SREG_I
    /\ OCR2 = 250 /\ TCCR2 = 11

---------------------------------------------------------------------------
(* Claims about move_stepper_motor_by_step *)

StepCall == call.fn = "move_stepper_motor_by_step"

\* The position k places from pos in direction dir (1 clockwise: towards the
\* higher bit)
Place(pos) == IF pos = 1 THEN 0 ELSE IF pos = 2 THEN 1 ELSE IF pos = 4 THEN 2 ELSE 3
Rotated(pos, k, dir) == 2 ^ ((Place(pos) + dir * k) % 4)

ClockwiseFrom0001 == <<2, 4, 8, 1>>
CounterclockwiseFrom0001 == <<8, 4, 2, 1>>

\* C5: after k steps of a call in direction +1 or -1 the Coil Position is the
\* position of the call's start rotated by k mod 4 places in that direction,
\* wherever the call started; from 0001 the steps visit 0010, 0100, 1000,
\* 0001 clockwise and 1000, 0100, 0010, 0001 counterclockwise.
C5_StepRotatesByOne ==
    /\ (StepCall /\ pc \in {"step:150", "step:163"})
        => /\ coil_position = Rotated(hist.pos0, i, direction)
           /\ (hist.pos0 = 1 /\ i >= 1 /\ direction = 1)
                => coil_position = ClockwiseFrom0001[((i - 1) % 4) + 1]
           /\ (hist.pos0 = 1 /\ i >= 1 /\ direction = -1)
                => coil_position = CounterclockwiseFrom0001[((i - 1) % 4) + 1]
    /\ (StepCall /\ Idle /\ call.b \in {1, -1} /\ call.a >= 0)
        => coil_position = Rotated(hist.pos0, call.a, call.b)

\* A call of four clockwise steps from 0100 has gone through the wraparound
\* and returned at 0100.
C5_Witness ==
    /\ StepCall /\ Idle /\ call.a = 4 /\ call.b = 1
    /\ hist.pos0 = 4 /\ coil_position = 4

\* C6: when move_stepper_motor_by_step has returned, PE4-PE7 are low.
C6_CoilsClearedOnReturn ==
    (StepCall /\ Idle) => PORTE \div 16 = 0

\* A call that energized coils has returned, with the low bits of the port
\* as they were.
C6_Witness ==
    /\ StepCall /\ Idle /\ call.a >= 2 /\ call.b = -1
    /\ PORTE = 10

\* C7: a call with a direction that is neither +1 nor -1 leaves the Coil
\* Position alone, drives no coil pin high, enters neither wait_ms nor the
\* timer driver, leaves the timer registers and the counter alone, and
\* returns with PE4-PE7 low.
C7_OtherDirectionIsNoOp ==
    [][(StepCall' /\ call'.b \notin {1, -1})
        => /\ coil_position' = coil_position
           /\ BitAnd(PORTE' \div 16, 15 - PORTE \div 16) = 0
           /\ pc' \notin WaitLines \cup TimerStartLines \cup TimerStopLines
           /\ <<OCR2, TCCR2, TIMSK, SREG_I>>' = <<OCR2, TCCR2, TIMSK, SREG_I>>
           /\ timer2_tick' = timer2_tick
           /\ pc' = "idle" => PORTE' \div 16 = 0]_vars

\* A call with direction 2 and a positive step count has returned.
C7_Witness ==
    /\ StepCall /\ Idle /\ call.a >= 1 /\ call.b = 2
    /\ coil_position = hist.pos0

---------------------------------------------------------------------------
(* Claims about the input readers *)

\* The buttons pressed: the indexes 0..5 of the bits of PINC that are low
Pressed(pinc) == {k \in 0 .. 5 : (pinc \div (2 ^ k)) % 2 = 0}
Highest(S) == CHOOSE k \in S : \A j \in S : j <= k

\* C8: read_push_buttons returns 0 when no button is pressed and otherwise
\* 1 + the highest index among the pressed buttons: 4 when only button 3 is
\* pressed, 6 when buttons 5 and 0 are; the result is in 0..6.
C8_HighestPressedButton ==
    [][MainCallsReadPushButtons
        => /\ ret' = IF Pressed(PINC) = {} THEN 0 ELSE 1 + Highest(Pressed(PINC))
           /\ Pressed(PINC) = {3} => ret' = 4
           /\ Pressed(PINC) = {5, 0} => ret' = 6
           /\ ret' \in 0 .. 6]_vars

\* Buttons 5 and 0 are pressed and the reader has returned 6.
C8_Witness ==
    /\ call.fn = "read_push_buttons"
    /\ Pressed(PINC) = {5, 0}
    /\ ret = 6

\* C9: read_shaft_encoder returns +1 exactly when the previous state is 11
\* and it observes 01, -1 exactly when the previous state is 11 and it
\* observes 10, and 0 otherwise; the previous state becomes the observed value.
C9_EncoderRotation ==
    [][MainCallsReadShaftEncoder
        => /\ (ret' = 1) <=> (old_value = 3 /\ PINC \div 64 = 1)
           /\ (ret' = -1) <=> (old_value = 3 /\ PINC \div 64 = 2)
           /\ ret' \in {-1, 0, 1}
           /\ old_value' = PINC \div 64]_vars

\* A call from the previous state 01 that observes 10 has returned 0 and
\* made 10 the previous state.
C9_Witness ==
    /\ call.fn = "read_shaft_encoder" /\ call.a = 1 /\ call.b = 2
    /\ ret = 0 /\ old_value = 2

---------------------------------------------------------------------------
(* Claims about the timer driver *)

\* C10: the steps of timer2_stop do not change timer2_tick; when it has
\* returned the compare-match interrupt is disabled and timer2_tick keeps
\* its value while the main line makes no other call; after a second
\* timer2_stop in a row TIMSK and TCCR2 are as the first one left them.
C10_StopIdempotent ==
    [][/\ (pc \in TimerStopLines /\ pc' # pc) => timer2_tick' = timer2_tick
       /\ (Idle' /\ call'.fn = "timer2_stop")
            => /\ ~OCIE2'
               /\ Idle => timer2_tick' = timer2_tick
               /\ call'.b = 1 => <<TIMSK, TCCR2>>' = call'.a]_vars

\* timer2_stop has returned for the second time in a row, after the counter
\* had run.
C10_Witness ==
    /\ Idle /\ call.fn = "timer2_stop" /\ call.b = 1
    /\ timer2_tick >= 1 /\ TCCR2 = 9

---------------------------------------------------------------------------
(* Long waits, with the fairness of the main line and of the interrupt *)

\* A wait of one tick, a wait that crosses the carry from the low into the
\* high byte of timer2_tick, and the longest wait the parameter's type can
\* ask for
CarryDur == ByteModulus + 1
LongDurations == {1, CarryDur, WordModulus - 1}

NextLong ==
    \/ MainRuns
    \/ MainCallsWait(LongDurations)
    \/ WaitSteps
    \/ CompareMatch
    \/ ISR_TIMER2_COMP

Fairness ==
    /\ WF_vars(WaitSteps)
    /\ WF_vars(CompareMatch)
    /\ WF_vars(ISR_TIMER2_COMP)

\* Long waits, compare matches one timer period apart.
SpecLong == InitWith("periodic", {0}) /\ [][NextLong]_vars

\* Long waits under fairness, with compare matches either at any time, so
\* that nothing but fairness is assumed of the interrupt and of the main
\* line, or one timer period apart.
InitFair ==
    \E mode \in {"any", "periodic"} : InitWith(mode, {0})

SpecFair == InitFair /\ [][NextLong]_vars /\ Fairness

---------------------------------------------------------------------------
(* Claims about timer2_start and the global interrupt flag *)

\* C11: when timer2_start(u), u in {0, 1}, returns, timer2_tick is 0, the
\* compare-match interrupt is enabled and the global interrupt flag is set,
\* whatever it was before; no step of timer2_stop changes the global
\* interrupt flag.
C11_StartPostcondition ==
    [][/\ (pc = "timer2_start:46" /\ pc' # pc)
            => (timer2_tick' = 0 /\ OCIE2' /\ SREG_I')
       /\ (pc \in TimerStopLines /\ pc' # pc) => SREG_I' = SREG_I]_vars

---------------------------------------------------------------------------
(* Claims about the waits in flight *)

\* The activations of wait_ms: the one the main line is in, and those it
\* will return into
WaitReturns == {"wait_ms:29", "wait_ms:32"}
WaitsInFlight ==
    (IF pc \in WaitLines THEN 1 ELSE 0)
    + Cardinality({k \in 1 .. Len(stack) : stack[k] \in WaitReturns})

\* C12: at most one wait is in flight; when wait_ms is entered no wait is in
\* flight and the compare-match interrupt, which a wait enables from its
\* timer2_start to its timer2_stop, is disabled; the interrupt handler leaves
\* the main line where it is.
C12_AtMostOneWait ==
    [][/\ WaitsInFlight' <= 1
       /\ (pc' = "wait_ms:24" /\ pc # "wait_ms:24")
            => (WaitsInFlight = 0 /\ ~OCIE2)
       /\ ISR_TIMER2_COMP => (pc' = pc /\ stack' = stack)]_vars

\* The second wait of a step call is in flight, its timer started, and the
\* handler has run in it.
C12_Witness ==
    /\ StepCall /\ i >= 1
    /\ pc = "wait_ms:29" /\ OCIE2 /\ timer2_tick = 1
    /\ WaitsInFlight = 1

---------------------------------------------------------------------------
(* Claims about the accesses to timer2_tick *)

\* C13: each run of the handler adds exactly one to timer2_tick, and the
\* value a poll of wait_ms compares is a value timer2_tick has held since the
\* wait reset it: as the counter only counts up from 0 during a wait (waits
\* short of the wraparound), a value that is at most the counter's present
\* value.
C13_PollReadsHeldValue ==
    [][/\ ISR_TIMER2_COMP => timer2_tick' = (timer2_tick + 1) % WordModulus
       /\ (pc = "wait_ms:29b" /\ time_val <= CarryDur)
            => Polled <= timer2_tick]_vars

---------------------------------------------------------------------------
(* Claims about the order of a step *)

TimerLines == TimerStartLines \cup TimerStopLines

\* C14: in a call with direction +1 or -1, wait_ms is entered only from
\* lines 159 and 172, with the Coil Position already advanced for this
\* iteration and shown on PE4-PE7, as the i+1st wait of the call; the port
\* is not written during the wait; the wait returns with at least 2 ticks
\* counted; and the call returns after exactly num_steps waits.
C14_StepOrder ==
    [][(StepCall /\ call' = call /\ call.b \in {1, -1} /\ call.a >= 1)
        => /\ (pc' = "wait_ms:24" /\ pc # "wait_ms:24")
                => /\ pc \in {"step:159", "step:172"}
                   /\ time_val' = 2
                   /\ coil_position = Rotated(hist.pos0, i + 1, direction)
                   /\ PORTE \div 16 = coil_position
                   /\ hist.waits = i
           /\ pc \in WaitLines \cup TimerLines
                => (PORTE' = PORTE /\ PORTE \div 16 = coil_position)
           /\ (pc = "wait_ms:32" /\ pc' # pc) => timer2_tick >= 2
           /\ pc' = "step:176" => hist.waits = num_steps
           /\ Idle' => hist'.waits = call'.a]_vars

\* A call of three counterclockwise steps has returned after three waits.
C14_Witness ==
    /\ StepCall /\ Idle /\ call.a = 3 /\ call.b = -1
    /\ hist.waits = 3
    /\ coil_position = Rotated(hist.pos0, 3, -1)

---------------------------------------------------------------------------
(* Claims about stepper_init *)

InitCall == call.fn = "stepper_init"

\* C15: in stepper_init, from line 131 on PE4-PE7 are outputs; during the
\* whole wait of line 132 PE4-PE7 show the rest pattern 1000; when
\* stepper_init has returned PE4-PE7 are low.
C15_InitDrivesRestPattern ==
    /\ (InitCall /\ pc \notin {"idle", "stepper_init:130"}) => DDRE \div 16 = 15
    /\ (InitCall /\ pc \in {"stepper_init:132"} \cup WaitLines \cup TimerLines)
            => PORTE \div 16 = 8
    /\ (InitCall /\ Idle) => PORTE \div 16 = 0

---------------------------------------------------------------------------
(* Claims about the Coil Position *)

OneHot == {1, 2, 4, 8}

\* C16: coil_position is one of 0001, 0010, 0100, 1000 in every state, 0001
\* before the first call; only the advance of a step iteration (lines
\* 151-155 and 164-168) changes it, so that stepper_init, wait_ms and the
\* return of a step call leave it alone and a step call starts from the
\* position the previous one ended in.
C16_CoilPositionOneHot ==
    [][/\ coil_position \in OneHot /\ coil_position' \in OneHot
       /\ call.fn = "none" => coil_position = 1
       /\ coil_position' # coil_position => pc \in {"step:151", "step:164"}
       /\ (StepCall' /\ call' # call) => hist'.pos0 = coil_position]_vars

\* stepper_init has run to its end after step calls that left the Coil
\* Position at 0100, and the Coil Position is still 0100.
C16_Witness ==
    /\ InitCall /\ Idle
    /\ hist.pos0 = 4 /\ coil_position = 4
    /\ hist.waits = 1

\* C17: a call with direction +1 or -1 and num_steps 0 or negative takes no
\* step: no step of it changes the Coil Position, raises a coil pin, enters
\* wait_ms or the timer driver or changes the timer registers or the counter;
\* it goes from the loop test straight to line 176 and returns with PE4-PE7
\* low.
C17_NoStepsIsNoOp ==
    [][(StepCall' /\ call'.b \in {1, -1} /\ call'.a <= 0)
        => /\ coil_position' = coil_position
           /\ BitAnd(PORTE' \div 16, 15 - PORTE \div 16) = 0
           /\ pc' \notin WaitLines \cup TimerLines
           /\ hist'.waits = 0
           /\ <<OCR2, TCCR2, TIMSK, SREG_I>>' = <<OCR2, TCCR2, TIMSK, SREG_I>>
           /\ timer2_tick' = timer2_tick
           /\ (pc \in {"step:150", "step:163"} /\ pc' # pc) => pc' = "step:176"
           /\ pc' = "idle" => PORTE' \div 16 = 0]_vars

\* A clockwise call of no steps has returned, from the position 0010.
C17_Witness ==
    /\ StepCall /\ Idle /\ call.a = 0 /\ call.b = 1
    /\ hist.pos0 = 2 /\ coil_position = 2
    /\ PORTE \div 16 = 0

---------------------------------------------------------------------------
(* Claims about successive reads of the shaft encoder *)

\* C18: when the call before was a read_shaft_encoder that returned +1 or
\* -1, read_shaft_encoder returns 0 whatever it observes; and when it
\* returns +1 or -1, the latest read_shaft_encoder before it, if any,
\* observed 11.
C18_NoRotationTwiceInARow ==
    [][MainCallsReadShaftEncoder
        => /\ (call.fn = "read_shaft_encoder" /\ ret # 0) => ret' = 0
           /\ ret' # 0
                => /\ old_value = 3
                   /\ call.fn = "read_shaft_encoder" => call.b = 3]_vars

\* A call from the previous state 10 observes 01, the pattern of a clockwise
\* rotation, and returns 0.
C18_Witness ==
    /\ call.fn = "read_shaft_encoder" /\ call.a = 2 /\ call.b = 1
    /\ ret = 0 /\ old_value = 1

---------------------------------------------------------------------------
(* Claims about the coil pins *)

CoilPins == PORTE \div 16

\* C19 as claimed: PE4-PE7 are all low or show the Coil Position, in every
\* state, and no step changes the low four bits of PORTE.
C19_PinsLowOrCurrentPosition ==
    [][/\ CoilPins \in {0, coil_position}
       /\ CoilPins' \in {0, coil_position'}
       /\ PORTE' % 16 = PORTE % 16]_vars

\* The Coil Position of the iteration before: the pins still show it when
\* the Coil Position has been advanced and line 156 / 169 has not yet
\* cleared them.
BeforeAdvance ==
    IF direction = 1 THEN NextCounterclockwise(coil_position)
    ELSE NextClockwise(coil_position)

PinsShowOnePosition ==
    \/ CoilPins \in {0, coil_position}
    \/ /\ pc \in {"step:156", "step:169"}
       /\ i >= 1
       /\ CoilPins = BeforeAdvance

\* C19 as amended: PE4-PE7 are all low, or show the Coil Position, or, from
\* the advance of the Coil Position to the clear of the pins in the second
\* and later iterations of a call, show the Coil Position of the iteration
\* before; never more than one of them is high, and no step changes the low
\* four bits of PORTE.
C19_PinsLowOrOnePosition ==
    [][/\ PinsShowOnePosition /\ PinsShowOnePosition'
       /\ CoilPins \in {0} \cup OneHot /\ CoilPins' \in {0} \cup OneHot
       /\ PORTE' % 16 = PORTE % 16]_vars

\* In the second iteration of a counterclockwise call the Coil Position has
\* been advanced and the pins still show the one before.
C19_Witness ==
    /\ StepCall /\ pc = "step:169" /\ i = 1
    /\ CoilPins = NextClockwise(coil_position)
    /\ PORTE % 16 = 10

---------------------------------------------------------------------------
(* Claims about the interrupt outside the waits *)

\* C20: whenever no wait is in flight the compare-match interrupt is
\* disabled and the handler cannot run; the handler runs only in a wait; and
\* no step from a state without a wait to a state without a wait changes
\* timer2_tick.
C20_InterruptOnlyDuringWait ==
    [][/\ WaitsInFlight = 0 => (~OCIE2 /\ ~Pending)
       /\ WaitsInFlight' = 0 => ~OCIE2'
       /\ ISR_TIMER2_COMP => WaitsInFlight = 1
       /\ (WaitsInFlight = 0 /\ WaitsInFlight' = 0)
            => timer2_tick' = timer2_tick]_vars

\* A wait has returned, the timer is still clocked and has flagged a compare
\* match, the global interrupt flag is set, and the handler cannot run.
C20_Witness ==
    /\ Idle /\ call.fn = "wait_ms" /\ WaitsInFlight = 0
    /\ Clocked /\ OCF2 /\ SREG_I /\ ~OCIE2
    /\ timer2_tick >= 1

=============================================================================
